---- MODULE Spec2Model ----
(***************************************************************************)
(* State-machine model of embassy-stm32's DMA transfer engine              *)
(* (src/embassy-stm32/src/dma/{mod,dma,bdma}.rs): the per-channel          *)
(* registers, the waker table STATE.ch_wakers, the interrupt handler       *)
(* on_irq, the one-shot transfers (do_transfer with its OnDrop guard), the *)
(* manual start_*/stop/is_stopped/remaining_transfers/set_waker calls and  *)
(* the completion future's poll.  Task context executes one call at a time *)
(* (variable cur), statement by statement; on_irq and the DMA hardware     *)
(* interleave with it at every statement boundary.                         *)
(***************************************************************************)
EXTENDS Integers, FiniteSets, Sequences, TLC

VARIABLES
    fam,        \* which module is compiled in: "dma" (dma.rs) or "bdma" (bdma.rs)
    manual,     \* the handle whose owner also drives it with start_*
    cr,         \* control register of every channel (a record of its fields)
    par,        \* peripheral address register
    mar,        \* memory address register (m0ar / mar)
    ndtr,       \* element counter register
    tcif,       \* transfer-complete flag (ISR)
    teif,       \* transfer-error flag (ISR)
    disabling,  \* channels whose EN was written 0 but still reads back 1
    ch_wakers,  \* STATE.ch_wakers: slot index -> registered waker
    woken,      \* wakers that have been woken and not yet polled
    fut,        \* per handle: state of the future returned by a one-shot call
    stops,      \* per handle: stop() calls made by the OnDrop guard of the current transfer
    cur,        \* the call task context is executing, with its position
    fault       \* "none", or the assertion that halted the program

vars == <<fam, manual, cr, par, mar, ndtr, tcif, teif, disabling, ch_wakers, woken,
          fut, stops, cur, fault>>

hw == <<cr, par, mar, ndtr, tcif, teif, disabling>>

(***************************************************************************)
(* Bounds of the model.                                                    *)
(***************************************************************************)
\* The hardware moves any number of elements in one step; remaining counts
\* up to MaxTrack are tracked exactly.
MaxTrack == 0

(***************************************************************************)
(* Constants of the program.                                               *)
(***************************************************************************)
Families == {"dma", "bdma"}

\* dma_num!: DMA1 -> 0, DMA2 -> 1
Controllers == {0, 1}

ChannelsPerController == 8

\* The third controller name bdma.rs's dma_num! knows.
BDMA == 2

\* The controllers a family's dma_num! names: DMA1 and DMA2 in dma.rs; DMA1,
\* DMA2 and BDMA in bdma.rs.
PeripheralsOf(f) == IF f = "dma" THEN Controllers ELSE Controllers \cup {BDMA}

CH_COUNT(f) == Cardinality(PeripheralsOf(f)) * ChannelsPerController

\* ndtr is max 16 bits
NdtrMax == 65535

AllCh == (Controllers \cup {BDMA}) \X (0 .. ChannelsPerController - 1)

\* The channel handles the model drives: channel 1 of DMA1 and of DMA2.  Every
\* other channel of the chip keeps its registers at their reset values.
Handles == {<<0, 1>>, <<1, 1>>}

\* Buffer lengths handed to the calls.
Lens == {NdtrMax, NdtrMax + 1}

OneShotOps == {"read_u8", "write_x"}

StartOps == {"start_read_u8"}

NoWaker == -1

PeriAddr == 1

BufAddr == 2

dma_num(ctrl) == IF ctrl = BDMA THEN 0 ELSE ctrl

\* A faulty variant of StateNumber: the channel number alone.
StateNumber_channel_only(h) == h[2]

\* The state_number impl_do_transfer hands to do_transfer.
StateNumber(h) == dma_num(h[1]) * 8 + h[2]

\* The waker of the task that owns handle h.
WakerOf(h) == h[1] * ChannelsPerController + h[2]

Wakers == {WakerOf(h) : h \in Handles}

\* The register's reset value, written by cr.write(|_| ()).
CrReset ==
    [en |-> FALSE, tcie |-> FALSE, teie |-> FALSE,
     dir |-> "from_peripheral", size |-> 8, minc |-> FALSE]

NoCall ==
    [kind |-> "idle", h |-> <<0, 0>>, op |-> "none", len |-> 0, pc |-> "idle",
     ret |-> FALSE, cnt |-> 0, fenced |-> FALSE]

Call(kind, h, op, len, pc) ==
    [kind |-> kind, h |-> h, op |-> op, len |-> len, pc |-> pc,
     ret |-> FALSE, cnt |-> 0, fenced |-> FALSE]

(***************************************************************************)
(* The transfer descriptor each public operation programs.                 *)
(***************************************************************************)
OpDir(op) ==
    IF op \in {"read_u8", "read_u16", "read_u32",
               "start_read_u8", "start_read_u16", "start_read_u32"}
    THEN "from_peripheral" ELSE "from_memory"

OpSize(f, op) ==
    CASE op \in {"read_u8", "write_u8", "start_read_u8", "start_write_u8"} -> 8
      [] op \in {"read_u16", "write_u16", "start_read_u16", "start_write_u16"} -> 16
      [] op \in {"read_u32", "write_u32", "start_read_u32", "start_write_u32"} -> 32
      [] op = "write_x" -> IF f = "dma" THEN 8 ELSE 32

OpIncrMem(op) == op # "write_x"

Init ==
    /\ fam \in Families
    /\ manual \in Handles
    /\ cr = [c \in Handles |-> CrReset]
    /\ par = [c \in Handles |-> 0]
    /\ mar = [c \in Handles |-> 0]
    /\ ndtr = [c \in Handles |-> 0]
    /\ tcif = [c \in Handles |-> FALSE]
    /\ teif = [c \in Handles |-> FALSE]
    /\ disabling = {}
    /\ ch_wakers = [n \in 0 .. CH_COUNT(fam) - 1 |-> NoWaker]
    /\ woken = {}
    /\ fut = [h \in Handles |-> "none"]
    /\ stops = [h \in Handles |-> 0]
    /\ cur = NoCall
    /\ fault = "none"

(***************************************************************************)
(* Register-level behaviour of the controller.                             *)
(***************************************************************************)
Min(a, b) == IF a < b THEN a ELSE b

\* A transfer is in flight on channel c.
Busy(c) == cr[c].en /\ ndtr[c] > 0

\* EN written 0 reads back 0 at once on an idle channel; on a busy one it may
\* still read 1 until the hardware acknowledges (HwDisableAck).
Lingers(c) == IF Busy(c) THEN BOOLEAN ELSE {FALSE}

\* The channel whose flags bit (isrn, isrbit) of the status registers holds:
\* dma.rs groups four streams per ISR, bdma.rs has one ISR per controller.
FlagCh(f, h) ==
    IF f = "dma"
    THEN <<h[1], (h[2] \div 4) * 4 + (h[2] % 4)>>
    ELSE <<h[1], h[2]>>

\* reset_status: the channels whose flag bits the IFCR write sets (and so clears).
reset_status(f, h) == {FlagCh(f, h)}

\* get_remaining_transfers: ndtr().read().ndt()
get_remaining_transfers(h) == ndtr[h] % (NdtrMax + 1)

\* is_stopped: ch.cr().read().en()
is_stopped(h) == cr[h].en

\* The slot Channel::set_waker passes on: $channel_num.
set_waker_index(h) == h[2]

\* The count start_transfer leaves in NDTR: mem_len as u16 (bdma.rs), or the
\* 16-bit NDT field of the written word (dma.rs).
ndtr_value(len) == len % (NdtrMax + 1)

\* A faulty variant of do_transfer_assert: the bound off by one.
do_transfer_assert_off_by_one(len) == len <= NdtrMax + 1

\* The assertion at the head of do_transfer.
do_transfer_assert(len) == len <= NdtrMax

\* A faulty variant of guard_runs_on_drop: the guard is created inside the async block,
\* so a future dropped before its first poll has none.
guard_created_at_first_poll(futstate) == futstate = "pending"

\* Whether dropping the future of a one-shot transfer runs the OnDrop guard:
\* the guard is created before the async block and moved into it.
guard_runs_on_drop(futstate) == futstate \in {"created", "pending"}

\* Whether the async block runs the guard (drop(on_drop)) before it returns.
guard_runs_on_ready == TRUE

\* A faulty variant of stop_cr_value: the write leaves the register as it was.
stop_leaves_cr(old) == old

\* A faulty variant of stop_cr_value: only EN is cleared, the interrupt enables stay.
stop_clears_en_only(old) == [old EXCEPT !.en = FALSE]

\* stop: the value ch.cr().write(|_| ()) leaves in the control register.
stop_cr_value(old) == CrReset

\* wait_for_completion's poll, from the status it read: the error assertion
\* comes before the completion check.
poll_outcome(te, tc) ==
    IF te THEN "panic" ELSE IF tc THEN "ready" ELSE "pending"

\* Whether the future Channel::wait_for_completion returns is the low-level
\* one: dma.rs calls low_level_api::wait_for_completion, bdma.rs returns
\* async move {}.
handle_wait_polls_hardware(f) == f = "dma"

\* A faulty variant of stop_spin_exit: stop does not wait for the readback.
stop_spin_exit_at_once(en) == TRUE

\* stop: the condition that ends while ch.cr().read().en() {}.
stop_spin_exit(en) == ~en

\* A faulty variant of pc_after_reset_status: the barrier is left out.
pc_after_reset_status_skips_fence(kind) == "regs"

\* Where a start goes on after reset_status: to fence(Ordering::Release),
\* which precedes the register writes of start_transfer on every path.
pc_after_reset_status(kind) == "fence"

\* A faulty variant of register: an occupied slot keeps its waker.
register_keeps_first(slots, n, w) ==
    IF slots[n] = NoWaker THEN [slots EXCEPT ![n] = w] ELSE slots

\* AtomicWaker::register: the slot is overwritten.
register(slots, n, w) == [slots EXCEPT ![n] = w]

\* AtomicWaker::wake: the wakers woken through the slots ns.
wake(slots, ns) == {slots[n] : n \in ns} \ {NoWaker}

\* Register reads of any channel of the chip.
Tcif(c) == IF c \in Handles THEN tcif[c] ELSE FALSE

Teif(c) == IF c \in Handles THEN teif[c] ELSE FALSE

Cr(c) == IF c \in Handles THEN cr[c] ELSE CrReset

\* A faulty variant of on_irq_hits: the interrupt enable is not tested.
on_irq_hits_ignoring_tcie(f) ==
    IF f = "dma"
    THEN {<<<<d, isrn * 4 + chn>>, dma_num(d) * 8 + isrn * 4 + chn>> :
            <<d, isrn, chn>> \in {t \in PeripheralsOf(f) \X (0 .. 1) \X (0 .. 3) :
                Tcif(<<t[1], t[2] * 4 + t[3]>>)}}
    ELSE {<<<<d, chn>>, dma_num(d) * 8 + chn>> :
            <<d, chn>> \in {t \in PeripheralsOf(f) \X (0 .. ChannelsPerController - 1) :
                Tcif(<<t[1], t[2]>>)}}

\* A faulty variant of on_irq_hits: the slot index leaves out dma_num * 8.
on_irq_hits_without_dma_num(f) ==
    IF f = "dma"
    THEN {<<<<d, isrn * 4 + chn>>, isrn * 4 + chn>> :
            <<d, isrn, chn>> \in {t \in PeripheralsOf(f) \X (0 .. 1) \X (0 .. 3) :
                Tcif(<<t[1], t[2] * 4 + t[3]>>) /\ Cr(<<t[1], t[2] * 4 + t[3]>>).tcie}}
    ELSE {<<<<d, chn>>, chn>> :
            <<d, chn>> \in {t \in PeripheralsOf(f) \X (0 .. ChannelsPerController - 1) :
                Tcif(<<t[1], t[2]>>) /\ Cr(<<t[1], t[2]>>).tcie}}

\* on_irq: each channel found complete with its interrupt enabled, paired with
\* the slot index woken for it.
on_irq_hits(f) ==
    IF f = "dma"
    THEN {<<<<d, isrn * 4 + chn>>, dma_num(d) * 8 + isrn * 4 + chn>> :
            <<d, isrn, chn>> \in {t \in PeripheralsOf(f) \X (0 .. 1) \X (0 .. 3) :
                Tcif(<<t[1], t[2] * 4 + t[3]>>) /\ Cr(<<t[1], t[2] * 4 + t[3]>>).tcie}}
    ELSE {<<<<d, chn>>, dma_num(d) * 8 + chn>> :
            <<d, chn>> \in {t \in PeripheralsOf(f) \X (0 .. ChannelsPerController - 1) :
                Tcif(<<t[1], t[2]>>) /\ Cr(<<t[1], t[2]>>).tcie}}

\* on_irq: the slot index it computes for channel c (n in the source).
on_irq_slot(f, c) ==
    IF f = "dma"
    THEN dma_num(c[1]) * 8 + (c[2] \div 4) * 4 + (c[2] % 4)
    ELSE dma_num(c[1]) * 8 + c[2]

\* The interrupt line of the family is asserted.
IrqPending ==
    \E c \in AllCh : (Tcif(c) /\ Cr(c).tcie) \/ (Teif(c) /\ Cr(c).teie)

(***************************************************************************)
(* Interrupt context.                                                      *)
(***************************************************************************)
on_irq ==
    /\ fault = "none"
    /\ IrqPending
    /\ LET hits == on_irq_hits(fam)
           hc == {x[1] : x \in hits}
       IN  /\ \E L \in SUBSET {c \in hc : Busy(c)} :
                /\ cr' = [c \in Handles |->
                            IF c \in hc THEN [CrReset EXCEPT !.en = (c \in L)]
                            ELSE cr[c]]
                /\ disabling' = (disabling \ hc) \cup L
           /\ woken' = woken \cup wake(ch_wakers, {x[2] : x \in hits})
    /\ UNCHANGED <<fam, manual, par, mar, ndtr, tcif, teif, ch_wakers, fut, stops, cur, fault>>

(***************************************************************************)
(* The hardware.                                                           *)
(***************************************************************************)
HwTransfer(c) ==
    /\ fault = "none"
    /\ cr[c].en /\ c \notin disabling /\ ndtr[c] > 0
    /\ \E v \in 0 .. Min(ndtr[c] - 1, MaxTrack) :
         /\ ndtr' = [ndtr EXCEPT ![c] = v]
         /\ IF v = 0
            THEN /\ tcif' = [tcif EXCEPT ![c] = TRUE]
                 \* a stream clears EN at the end of the transfer, a bdma channel does not
                 /\ cr' = [cr EXCEPT ![c].en = (fam = "bdma")]
            ELSE UNCHANGED <<tcif, cr>>
    /\ UNCHANGED <<fam, manual, par, mar, teif, disabling, ch_wakers, woken, fut, stops, cur, fault>>

HwError(c) ==
    /\ fault = "none"
    /\ cr[c].en /\ c \notin disabling /\ ndtr[c] > 0
    /\ teif' = [teif EXCEPT ![c] = TRUE]
    /\ cr' = [cr EXCEPT ![c].en = FALSE]
    /\ UNCHANGED <<fam, manual, par, mar, ndtr, tcif, disabling, ch_wakers, woken, fut, stops, cur, fault>>

HwDisableAck(c) ==
    /\ fault = "none"
    /\ c \in disabling
    /\ cr' = [cr EXCEPT ![c].en = FALSE]
    /\ disabling' = disabling \ {c}
    /\ \E f \in (IF fam = "dma" THEN {tcif[c], TRUE} ELSE {tcif[c]}) :
         tcif' = [tcif EXCEPT ![c] = f]
    /\ UNCHANGED <<fam, manual, par, mar, ndtr, teif, ch_wakers, woken, fut, stops, cur, fault>>

(***************************************************************************)
(* Task context: the public calls of a channel handle.  A handle is        *)
(* mutably borrowed by the future of its one-shot transfer, so its other   *)
(* calls are possible only while fut[h] = "none".                          *)
(***************************************************************************)
Free(h) == cur = NoCall /\ fault = "none" /\ fut[h] = "none"

\* read_* / write_* / write_x: impl_do_transfer -> do_transfer, up to its assertion.
OneShotCall(h, op, len) ==
    /\ Free(h)
    /\ IF do_transfer_assert(len)
       THEN /\ cur' = Call("oneshot", h, op, len, "reset_status")
            /\ UNCHANGED fault
       ELSE /\ cur' = Call("oneshot", h, op, len, "panicked")
            /\ fault' = "len"
    /\ UNCHANGED <<fam, manual, hw, ch_wakers, woken, fut, stops>>

\* start_read_* / start_write_*: impl_start_transfer.
StartCall(h, op, len) ==
    /\ Free(h)
    /\ h = manual
    /\ cur' = Call("start", h, op, len, "reset_status")
    /\ UNCHANGED <<fam, manual, hw, ch_wakers, woken, fut, stops, fault>>

Starting == fault = "none" /\ cur.kind \in {"oneshot", "start"}

\* reset_status, then (do_transfer) the OnDrop guard is created.
StepResetStatus ==
    /\ Starting /\ cur.pc = "reset_status"
    /\ tcif' = [c \in Handles |-> IF c \in reset_status(fam, cur.h) THEN FALSE ELSE tcif[c]]
    /\ teif' = [c \in Handles |-> IF c \in reset_status(fam, cur.h) THEN FALSE ELSE teif[c]]
    /\ stops' = IF cur.kind = "oneshot" THEN [stops EXCEPT ![cur.h] = 0] ELSE stops
    /\ cur' = [cur EXCEPT !.pc = pc_after_reset_status(cur.kind)]
    /\ UNCHANGED <<fam, manual, cr, par, mar, ndtr, disabling, ch_wakers, woken, fut, fault>>

\* fence(Ordering::Release)
StepFence ==
    /\ Starting /\ cur.pc = "fence"
    /\ cur' = [cur EXCEPT !.pc = "regs", !.fenced = TRUE]
    /\ UNCHANGED <<fam, manual, hw, ch_wakers, woken, fut, stops, fault>>

\* start_transfer: the address and count registers
StepRegs ==
    /\ Starting /\ cur.pc = "regs"
    /\ par' = [par EXCEPT ![cur.h] = PeriAddr]
    /\ mar' = [mar EXCEPT ![cur.h] = BufAddr]
    /\ ndtr' = [ndtr EXCEPT ![cur.h] = ndtr_value(cur.len)]
    /\ cur' = [cur EXCEPT !.pc = "cr"]
    /\ UNCHANGED <<fam, manual, cr, tcif, teif, disabling, ch_wakers, woken, fut, stops, fault>>

\* The control-register write that enables the channel; do_transfer then
\* returns its future.
StepCr ==
    /\ Starting /\ cur.pc = "cr"
    /\ cr' = [cr EXCEPT ![cur.h] =
                [en |-> TRUE, tcie |-> TRUE, teie |-> TRUE, dir |-> OpDir(cur.op),
                 size |-> OpSize(fam, cur.op), minc |-> OpIncrMem(cur.op)]]
    /\ disabling' = disabling \ {cur.h}
    /\ fut' = IF cur.kind = "oneshot" THEN [fut EXCEPT ![cur.h] = "created"] ELSE fut
    /\ cur' = NoCall
    /\ UNCHANGED <<fam, manual, par, mar, ndtr, tcif, teif, ch_wakers, woken, stops, fault>>

\* A poll of the one-shot future: wait_for_completion registers the waker ...
PollBegin(h) ==
    /\ cur = NoCall /\ fault = "none" /\ fut[h] # "none"
    /\ ch_wakers' = register(ch_wakers, StateNumber(h), WakerOf(h))
    /\ woken' = woken \ {WakerOf(h)}
    /\ cur' = Call("poll", h, "none", 0, "read_isr")
    /\ UNCHANGED <<fam, manual, hw, fut, stops, fault>>

\* A poll of the future Channel::wait_for_completion returned (the caller
\* awaits a transfer it started with start_*).  The future is stateless: each
\* poll is a call of its own, and cur.ret is what the poll returns (TRUE for
\* Ready).
WaitPoll(h) ==
    /\ Free(h)
    /\ IF handle_wait_polls_hardware(fam)
       THEN /\ ch_wakers' = register(ch_wakers, StateNumber(h), WakerOf(h))
            /\ woken' = woken \ {WakerOf(h)}
            /\ cur' = Call("wait", h, "none", 0, "read_isr")
       ELSE /\ cur' = [Call("wait", h, "none", 0, "done") EXCEPT !.ret = TRUE]
            /\ UNCHANGED <<ch_wakers, woken>>
    /\ UNCHANGED <<fam, manual, hw, fut, stops, fault>>

\* ... then reads the status register.
PollRead ==
    /\ fault = "none" /\ cur.kind \in {"poll", "wait"} /\ cur.pc = "read_isr"
    /\ LET out == poll_outcome(teif[FlagCh(fam, cur.h)], tcif[FlagCh(fam, cur.h)])
       IN  CASE out = "panic" ->
                 /\ fault' = "teif"
                 /\ cur' = [cur EXCEPT !.pc = "panicked"]
                 /\ UNCHANGED fut
             [] out = "ready" /\ cur.kind = "poll" ->
                 /\ cur' = [cur EXCEPT !.pc = IF guard_runs_on_ready
                                               THEN "stop_write" ELSE "done"]
                 /\ UNCHANGED <<fut, fault>>
             [] out = "ready" /\ cur.kind = "wait" ->
                 /\ cur' = [cur EXCEPT !.pc = "done", !.ret = TRUE]
                 /\ UNCHANGED <<fut, fault>>
             [] out = "pending" /\ cur.kind = "poll" ->
                 /\ fut' = [fut EXCEPT ![cur.h] = "pending"]
                 /\ cur' = NoCall
                 /\ UNCHANGED fault
             [] out = "pending" /\ cur.kind = "wait" ->
                 /\ cur' = [cur EXCEPT !.pc = "done", !.ret = FALSE]
                 /\ UNCHANGED <<fut, fault>>
    /\ UNCHANGED <<fam, manual, hw, ch_wakers, woken, stops>>

\* The caller drops the future of a one-shot transfer.
DropFuture(h) ==
    /\ cur = NoCall /\ fault = "none" /\ fut[h] # "none"
    /\ cur' = Call("drop", h, "none", 0,
                   IF guard_runs_on_drop(fut[h]) THEN "stop_write" ELSE "done")
    /\ UNCHANGED <<fam, manual, hw, ch_wakers, woken, fut, stops, fault>>

\* Channel::stop
StopCall(h) ==
    /\ Free(h)
    /\ cur' = Call("stop", h, "none", 0, "stop_write")
    /\ UNCHANGED <<fam, manual, hw, ch_wakers, woken, fut, stops, fault>>

Stopping == fault = "none" /\ cur.kind \in {"poll", "drop", "stop"}

\* stop: ch.cr().write(|_| ())
StepStopWrite ==
    /\ Stopping /\ cur.pc = "stop_write"
    /\ \E l \in Lingers(cur.h) :
         /\ cr' = [cr EXCEPT ![cur.h] = [stop_cr_value(cr[cur.h]) EXCEPT !.en = @ \/ l]]
         /\ disabling' = IF l THEN disabling \cup {cur.h} ELSE disabling \ {cur.h}
    /\ stops' = IF cur.kind \in {"poll", "drop"}
                THEN [stops EXCEPT ![cur.h] = @ + 1] ELSE stops
    /\ cur' = [cur EXCEPT !.pc = "stop_spin"]
    /\ UNCHANGED <<fam, manual, par, mar, ndtr, tcif, teif, ch_wakers, woken, fut, fault>>

\* stop: while ch.cr().read().en() {} -- the read that leaves the loop
StepStopSpin ==
    /\ Stopping /\ cur.pc = "stop_spin"
    /\ stop_spin_exit(cr[cur.h].en)
    /\ cur' = [cur EXCEPT !.pc = "stop_fence"]
    /\ UNCHANGED <<fam, manual, hw, ch_wakers, woken, fut, stops, fault>>

\* stop: fence(Ordering::Acquire)
StepStopFence ==
    /\ Stopping /\ cur.pc = "stop_fence"
    /\ cur' = [cur EXCEPT !.pc = "done"]
    /\ UNCHANGED <<fam, manual, hw, ch_wakers, woken, fut, stops, fault>>

\* Channel::is_stopped
IsStoppedCall(h) ==
    /\ Free(h)
    /\ cur' = [Call("is_stopped", h, "none", 0, "done") EXCEPT !.ret = is_stopped(h)]
    /\ UNCHANGED <<fam, manual, hw, ch_wakers, woken, fut, stops, fault>>

\* Channel::remaining_transfers
RemainingCall(h) ==
    /\ Free(h)
    /\ cur' = [Call("remaining_transfers", h, "none", 0, "done")
                 EXCEPT !.cnt = get_remaining_transfers(h)]
    /\ UNCHANGED <<fam, manual, hw, ch_wakers, woken, fut, stops, fault>>

\* Channel::set_waker
SetWakerCall(h, w) ==
    /\ Free(h)
    /\ ch_wakers' = register(ch_wakers, set_waker_index(h), w)
    /\ cur' = [Call("set_waker", h, "none", 0, "done") EXCEPT !.cnt = w]
    /\ UNCHANGED <<fam, manual, hw, woken, fut, stops, fault>>

\* The call returns: a poll that got here returns Ready, a drop is over.
Return ==
    /\ fault = "none" /\ cur.pc = "done"
    /\ fut' = IF cur.kind \in {"poll", "drop"} THEN [fut EXCEPT ![cur.h] = "none"] ELSE fut
    /\ woken' = IF cur.kind \in {"poll", "drop"} THEN woken \ {WakerOf(cur.h)} ELSE woken
    /\ stops' = IF cur.kind \in {"poll", "drop"} THEN [stops EXCEPT ![cur.h] = 0] ELSE stops
    /\ cur' = NoCall
    /\ UNCHANGED <<fam, manual, hw, ch_wakers, fault>>

Next ==
    \/ \E h \in Handles, op \in OneShotOps, len \in Lens : OneShotCall(h, op, len)
    \/ \E h \in Handles, op \in StartOps, len \in Lens : StartCall(h, op, len)
    \/ StepResetStatus
    \/ StepFence
    \/ StepRegs
    \/ StepCr
    \/ \E h \in Handles : PollBegin(h)
    \/ \E h \in Handles : WaitPoll(h)
    \/ PollRead
    \/ \E h \in Handles : DropFuture(h)
    \/ \E h \in Handles : StopCall(h)
    \/ StepStopWrite
    \/ StepStopSpin
    \/ StepStopFence
    \/ \E h \in Handles : IsStoppedCall(h)
    \/ \E h \in Handles : RemainingCall(h)
    \/ \E h \in Handles, w \in Wakers : SetWakerCall(h, w)
    \/ Return
    \/ on_irq
    \/ \E c \in Handles : HwTransfer(c)
    \/ \E c \in Handles : HwError(c)
    \/ \E c \in Handles : HwDisableAck(c)

Spec == Init /\ [][Next]_vars

(***************************************************************************)
(* Scheduling assumptions for the liveness properties: the interrupt       *)
(* handler runs while its line is asserted, task context finishes the call *)
(* it is in, the executor polls a future that is new or was woken, and the *)
(* hardware acknowledges a disable.  The hardware is not assumed to        *)
(* complete a transfer, and nothing is assumed of polls nobody asked for.  *)
(***************************************************************************)
TaskStep ==
    \/ StepResetStatus \/ StepFence \/ StepRegs \/ StepCr \/ PollRead
    \/ StepStopWrite \/ StepStopSpin \/ StepStopFence \/ Return

SchedPoll(h) ==
    /\ (fut[h] = "created" \/ WakerOf(h) \in woken)
    /\ PollBegin(h)

FairSpec ==
    /\ Spec
    /\ WF_vars(on_irq)
    /\ WF_vars(TaskStep)
    /\ \A h \in Handles : SF_vars(SchedPoll(h))
    /\ \A c \in Handles : WF_vars(HwDisableAck(c))

\* The assumptions stop's busy-wait rests on: task context keeps running and
\* the hardware acknowledges a disable.  Nothing is assumed of on_irq or of
\* the executor.
StopFairSpec ==
    /\ Spec
    /\ WF_vars(TaskStep)
    /\ \A c \in Handles : WF_vars(HwDisableAck(c))

(***************************************************************************)
(* Properties.                                                             *)
(***************************************************************************)
\* The spec's channel identity: controller_ordinal * channels_per_controller
\* + channel_ordinal.
GlobalIndex(c) == c[1] * ChannelsPerController + c[2]

\* C1: when the future of a one-shot transfer has been dropped (before its
\* first poll or while pending, whatever on_irq and the hardware did in
\* between), the guard has called stop exactly once for that transfer and the
\* channel's enable bit reads false; the guard never runs twice.
C1_CancelStopsOnce ==
    /\ \A h \in Handles : stops[h] <= 1
    /\ (cur.kind = "drop" /\ cur.pc = "done") =>
          (stops[cur.h] = 1 /\ ~cr[cur.h].en)

\* C1 witness: a drop has finished while the transfer was still in flight
\* (complete flag clear, elements remaining).
C1_Witness ==
    /\ cur.kind = "drop" /\ cur.pc = "done"
    /\ ~tcif[cur.h] /\ ndtr[cur.h] > 0
    /\ stops[cur.h] = 1

\* C2: when a poll that observed the complete flag is about to return Ready,
\* the guard has run stop exactly once and the channel's enable bit and both
\* interrupt-enable bits are clear.
C2_ReadyAfterStop ==
    (cur.kind = "poll" /\ cur.pc = "done") =>
        /\ stops[cur.h] = 1
        /\ ~cr[cur.h].en /\ ~cr[cur.h].tcie /\ ~cr[cur.h].teie

\* C2 witness: a poll of a completed transfer is about to return Ready.
C2_Witness ==
    /\ cur.kind = "poll" /\ cur.pc = "done"
    /\ tcif[cur.h] /\ ndtr[cur.h] = 0
    /\ stops[cur.h] = 1

\* C5: a one-shot call with more than 65535 elements fails at the assertion,
\* and the failing step writes no register, touches no waker slot and runs
\* no guard: such a call is never seen past the assertion.
C5_OversizeFailsFirst ==
    /\ [](cur.kind = "oneshot" /\ cur.len > NdtrMax =>
             cur.pc = "panicked" /\ fault = "len")
    /\ [][fault = "none" /\ fault' = "len" =>
             UNCHANGED <<hw, ch_wakers, woken, stops, fut>>]_vars

\* C5 witness: an oversized one-shot call has hit the assertion.
C5_Witness ==
    /\ fault = "len"
    /\ cur.kind = "oneshot" /\ cur.len > NdtrMax /\ cur.pc = "panicked"

\* C7: a run of on_irq clears the completion-interrupt enable of every
\* channel it finds complete with that interrupt enabled, wakes exactly the
\* wakers registered in those channels' own slots and nobody else, and leaves
\* the slots alone; the interrupt enable of a channel is set again only by
\* the control-register write of a new start on that channel.
C7_WakeCorrect ==
    /\ [][on_irq =>
            LET hit == {c \in AllCh : Tcif(c) /\ Cr(c).tcie}
            IN  /\ \A c \in hit : c \in Handles /\ ~cr'[c].tcie
                /\ woken' = woken \cup
                      ({ch_wakers[GlobalIndex(c)] : c \in hit} \ {NoWaker})
                /\ ch_wakers' = ch_wakers]_vars
    /\ [][\A c \in Handles : ~cr[c].tcie /\ cr'[c].tcie =>
            cur.pc = "cr" /\ cur.h = c]_vars

\* C7 witness: on_irq has found a pending one-shot transfer complete: its
\* task is woken and its interrupt enable is clear.
C7_Witness ==
    \E h \in Handles :
        /\ fut[h] = "pending" /\ tcif[h] /\ ~cr[h].tcie
        /\ WakerOf(h) \in woken
        /\ ch_wakers[GlobalIndex(h)] = WakerOf(h)

\* C6: a start_read_* / start_write_* call whose buffer is longer than the
\* 16-bit counter is refused before any register is written: a start call
\* never gets to its enable write with a length above 65535, nor with a count
\* programmed that differs from the requested length.
C6_StartRefusesOversize ==
    (cur.kind = "start" /\ cur.pc = "cr") =>
        (cur.len <= NdtrMax /\ ndtr_value(cur.len) = cur.len)

\* C8: no start (one-shot or start_*) writes the address, count or control
\* registers of a channel whose enable bit is set.
C8_NoRewriteWhileEnabled ==
    (cur.kind \in {"oneshot", "start"} /\ cur.pc \in {"regs", "cr"}) =>
        ~cr[cur.h].en

\* C9: is_stopped returns true exactly when the channel's enable bit is
\* clear, and changes neither a register nor a waker slot.
C9_IsStoppedMeansStopped ==
    [][cur.kind = "idle" /\ cur'.kind = "is_stopped" =>
          /\ cur'.ret = ~cr[cur'.h].en
          /\ UNCHANGED <<hw, ch_wakers>>]_vars

\* C10: set_waker on a handle stores the waker in the slot with the global
\* index of that handle's channel, the slot on_irq wakes for it.
C10_SetWakerOwnSlot ==
    (cur.kind = "set_waker" /\ cur.pc = "done") =>
        ch_wakers[GlobalIndex(cur.h)] = cur.cnt

\* C4: a task whose one-shot future returned Pending is never left with the
\* complete flag set and no wake on its way: once the flag is set, either the
\* task has been woken, or the channel's completion interrupt is still armed
\* and on_irq will find the task's waker in the slot it wakes.
C4_NoLostWakeup ==
    \A h \in Handles :
        (/\ fault = "none"
         /\ fut[h] = "pending" /\ tcif[h]
         /\ ~(cur.kind \in {"poll", "drop"} /\ cur.h = h))
        => \/ WakerOf(h) \in woken
           \/ cr[h].tcie /\ ch_wakers[GlobalIndex(h)] = WakerOf(h)

\* C3: once the hardware has completed a one-shot transfer (complete flag
\* set, counter at 0) its future resolves (or the caller drops it, or the
\* program halts on an assertion), given that on_irq runs while its interrupt
\* is pending and that a woken task is polled; and from completion on
\* remaining_transfers reads back 0 for as long as the future lives.
C3_CompletionResolves ==
    /\ \A h \in Handles :
          (fut[h] # "none" /\ tcif[h] /\ ndtr[h] = 0)
              ~> (fut[h] = "none" \/ fault # "none")
    /\ [][\A h \in Handles :
            (fut[h] # "none" /\ tcif[h] /\ ndtr[h] = 0)
                => get_remaining_transfers(h)' = 0]_vars

\* C11: a poll of the future a handle's wait_for_completion returned reports
\* Ready only when the channel's transfer-complete flag is set, and not-ready
\* while it is clear, in both families.
C11_WaitReadyOnlyWhenComplete ==
    [][(cur.pc # "done" /\ cur'.kind = "wait" /\ cur'.pc = "done") =>
          (cur'.ret <=> tcif[FlagCh(fam, cur'.h)])]_vars

\* C12: a poll of a completion future that finds its transfer not yet
\* complete writes no hardware register (control, flags, addresses and count
\* unchanged, the channel still enabled with its interrupts armed): the step
\* that begins a poll changes nothing but the waker in the channel's own slot,
\* which then holds the polling task's waker, and the step that reads the
\* status and returns Pending changes neither a register nor a slot.
C12_PendingPollWritesNothing ==
    [][/\ (cur.kind = "idle" /\ cur'.kind \in {"poll", "wait"}) =>
            /\ UNCHANGED hw
            /\ ch_wakers' =
                  IF cur'.pc = "read_isr"
                  THEN [ch_wakers EXCEPT ![GlobalIndex(cur'.h)] = WakerOf(cur'.h)]
                  ELSE ch_wakers
       /\ (/\ cur.kind \in {"poll", "wait"} /\ cur.pc = "read_isr"
           /\ \/ cur.kind = "poll" /\ cur' = NoCall
              \/ cur.kind = "wait" /\ cur'.pc = "done" /\ ~cur'.ret) =>
            UNCHANGED <<hw, ch_wakers>>]_vars

\* C12 witness: a one-shot future of the second controller has been polled,
\* returned Pending and left its transfer running with interrupts armed.
C12_Witness ==
    /\ cur = NoCall /\ fut[<<1, 1>>] = "pending"
    /\ cr[<<1, 1>>].en /\ cr[<<1, 1>>].tcie /\ cr[<<1, 1>>].teie
    /\ ~tcif[<<1, 1>>] /\ ndtr[<<1, 1>>] > 0
    /\ ch_wakers[GlobalIndex(<<1, 1>>)] = WakerOf(<<1, 1>>)

\* C13: whenever the transfer-error flag of a channel is set while the future
\* of a one-shot transfer on it is alive, the program eventually reaches the
\* fatal assertion (or the caller drops the future), given that on_irq runs
\* while its interrupt is pending and that a new or woken future is polled:
\* the task is never left suspended forever with the error flag set.
C13_ErrorReachesAssertion ==
    \A h \in Handles :
        (fut[h] # "none" /\ teif[h]) ~> (fault # "none" \/ fut[h] = "none")

\* C15: a run of on_irq that finds the transfer-error flag of a channel set
\* with that channel's error interrupt enabled ends in the fatal assertion.
C15_BridgeFaultsOnError ==
    [][(on_irq /\ \E c \in AllCh : Teif(c) /\ Cr(c).teie) => fault' # "none"]_vars

\* C16: when on_irq returns, no channel is left with an enabled interrupt
\* whose flag is set: neither complete flag with complete-interrupt enable nor
\* error flag with error-interrupt enable.
C16_QuiescentAfterIrq ==
    [][on_irq => ~IrqPending']_vars

\* C14: no poll of a completion future (that of a one-shot transfer or the
\* one a handle's wait_for_completion returned) returns Ready while the
\* channel's transfer-error flag is set.
C14_NoReadyWithError ==
    [][(\/ /\ cur.kind = "poll" /\ cur.pc = "read_isr"
           /\ cur'.pc \in {"stop_write", "done"}
        \/ /\ cur.pc # "done"
           /\ cur'.kind = "wait" /\ cur'.pc = "done" /\ cur'.ret)
          => ~teif[FlagCh(fam, cur'.h)]]_vars

\* C17: the future of a one-shot transfer resolves only on the completion of
\* its own transfer, never on a complete flag left by an earlier transfer on
\* the channel: when its poll has observed the complete flag, the counter of
\* the transfer it started has reached 0.
C17_NoStaleCompletion ==
    (cur.kind = "poll" /\ cur.pc = "stop_write") => ndtr[cur.h] = 0

\* C18: stop writes the control register's reset value first (enable and
\* both interrupt enables cleared in one write), then reads the enable bit
\* until it reads clear, then issues the acquire barrier and returns; when it
\* returns, the channel's enable bit and both interrupt-enable bits are clear,
\* whether the channel was running, had completed or was never started.
C18_StopOrderAndPost ==
    /\ []((cur.kind \in {"stop", "poll", "drop"} /\ cur.pc = "done") =>
             (~cr[cur.h].en /\ ~cr[cur.h].tcie /\ ~cr[cur.h].teie))
    /\ [][
           /\ (cur.pc = "stop_write" /\ cur' # cur) =>
                /\ cur'.pc = "stop_spin"
                /\ cr'[cur.h] = [CrReset EXCEPT !.en = cr'[cur.h].en]
           /\ (cur.pc = "stop_spin" /\ cur' # cur) =>
                (~cr[cur.h].en /\ cur'.pc = "stop_fence" /\ UNCHANGED hw)
           /\ (cur.pc = "stop_fence" /\ cur' # cur) =>
                (cur'.pc = "done" /\ UNCHANGED hw)
           /\ (cur'.pc = "done" /\ cur.pc # "done"
                  /\ cur'.kind \in {"stop", "poll", "drop"}) =>
                cur.pc = "stop_fence"]_vars

\* C18 witness: stop has returned on a channel it found running (elements
\* left, complete flag clear).
C18_Witness ==
    /\ cur.kind = "stop" /\ cur.pc = "done"
    /\ ndtr[cur.h] > 0 /\ ~tcif[cur.h] /\ par[cur.h] = PeriAddr
    /\ ~cr[cur.h].en

\* C19: stop terminates: given that the hardware acknowledges a disable (the
\* enable bit eventually reads clear after the reset value is written) and
\* that task context keeps running, every stop that has begun (called
\* directly or run by the guard, on a running, idle or completed channel,
\* with on_irq running at any point) leaves its busy-wait loop and returns.
C19_StopTerminates ==
    (cur.pc \in {"stop_write", "stop_spin"}) ~> (cur.pc = "done")

\* C19 witness: stop is in its busy-wait loop and the enable bit still reads
\* set.
C19_Witness ==
    /\ cur.kind \in {"stop", "poll", "drop"} /\ cur.pc = "stop_spin"
    /\ cr[cur.h].en

\* C20: in every start (one-shot or start_*, either family) the release
\* barrier comes first, then the peripheral address, memory address and count
\* registers are written, then the control register is written with the
\* enable bit set; the enable bit of a channel never goes from clear to set
\* except by that last write, after the barrier of the same call.
C20_BarrierBeforeEnable ==
    [][
       /\ (\E c \in Handles : ~cr[c].en /\ cr'[c].en) =>
            (cur.pc = "cr" /\ cur.fenced /\ ~cr[cur.h].en /\ cr'[cur.h].en)
       /\ (cur.pc = "fence" /\ cur' # cur) =>
            (cur'.pc = "regs" /\ cur'.fenced /\ UNCHANGED hw)
       /\ (cur.pc = "regs" /\ cur' # cur) =>
            /\ cur.fenced /\ cur'.pc = "cr"
            /\ par'[cur.h] = PeriAddr /\ mar'[cur.h] = BufAddr
            /\ ndtr'[cur.h] = ndtr_value(cur.len)
            /\ UNCHANGED cr
       /\ (cur.pc = "cr" /\ cur' # cur) =>
            (cur.fenced /\ cr'[cur.h].en /\ UNCHANGED <<par, mar, ndtr>>)
      ]_vars

\* C20 witness: a start has issued its barrier and written the address and
\* count registers and is about to write the control register of a channel
\* that is still disabled.
C20_Witness ==
    /\ cur.kind \in {"oneshot", "start"} /\ cur.pc = "cr" /\ cur.fenced
    /\ ~cr[cur.h].en
    /\ par[cur.h] = PeriAddr /\ mar[cur.h] = BufAddr /\ ndtr[cur.h] = NdtrMax

\* C21: a run of on_irq touches a channel only if that channel's complete
\* flag is set and its completion interrupt is enabled at that time: such a
\* channel gets the reset value in its control register; every other channel
\* keeps its control register; a task is newly woken only through the slot
\* of such a channel; and no waker slot, status flag, address or count
\* register is modified.
C21_IrqFrame ==
    [][on_irq =>
          /\ \A c \in Handles :
                IF tcif[c] /\ cr[c].tcie
                THEN cr'[c] = [CrReset EXCEPT !.en = cr'[c].en]
                ELSE cr'[c] = cr[c]
          /\ \A w \in woken' \ woken :
                \E c \in Handles :
                    tcif[c] /\ cr[c].tcie /\ ch_wakers[StateNumber(c)] = w
          /\ UNCHANGED <<ch_wakers, tcif, teif, par, mar, ndtr>>]_vars

\* C21 witness: on_irq has handled the completion of one channel (its task
\* is woken, its control register reset) while the other channel's transfer
\* is still in progress with its interrupts armed.
C21_Witness ==
    \E h \in Handles, g \in Handles :
        /\ h # g
        /\ fut[h] = "pending" /\ tcif[h] /\ ~cr[h].tcie /\ WakerOf(h) \in woken
        /\ cr[g].en /\ cr[g].tcie /\ cr[g].teie /\ ~tcif[g] /\ ndtr[g] > 0

\* C22: a slot holds one waker at most, the latest registered: a step that
\* registers (the start of a poll, or set_waker) changes one slot only and
\* leaves the registrant's waker in it, whatever it held; on_irq wakes only
\* what the slots hold at that time, so an overwritten waker is not woken;
\* and waking an empty slot wakes nobody and changes nothing.
C22_SlotLatestWins ==
    /\ [](NoWaker \notin woken)
    /\ [][
          /\ (cur.kind = "idle" /\ cur'.kind \in {"poll", "wait"}
                 /\ cur'.pc = "read_isr") =>
               \E n \in DOMAIN ch_wakers :
                   ch_wakers' = [ch_wakers EXCEPT ![n] = WakerOf(cur'.h)]
          /\ (cur.kind = "idle" /\ cur'.kind = "set_waker") =>
               \E n \in DOMAIN ch_wakers :
                   ch_wakers' = [ch_wakers EXCEPT ![n] = cur'.cnt]
          /\ on_irq =>
               /\ ch_wakers' = ch_wakers
               /\ woken' \ woken \subseteq
                     {ch_wakers[n] : n \in DOMAIN ch_wakers} \ {NoWaker}
               /\ (\A c \in Handles :
                      (tcif[c] /\ cr[c].tcie) => ch_wakers[StateNumber(c)] = NoWaker)
                    => woken' = woken
         ]_vars

\* C22 witness: the slot of DMA1 channel 1, in which a pending future had
\* registered its task's waker, has been overwritten with another waker, and
\* the completion has woken the latter and not the former.
C22_Witness ==
    /\ fut[<<0, 1>>] = "pending" /\ tcif[<<0, 1>>] /\ ~cr[<<0, 1>>].tcie
    /\ ch_wakers[StateNumber(<<0, 1>>)] = WakerOf(<<1, 1>>)
    /\ WakerOf(<<1, 1>>) \in woken /\ WakerOf(<<0, 1>>) \notin woken
    /\ fut[<<1, 1>>] = "none" /\ ~tcif[<<1, 1>>]

C25_FamilyEquivalentDescriptor ==
    [][/\ (Starting /\ cur.pc = "regs" /\ cur' # cur /\ cur.op = "write_x") =>
             ndtr'[cur.h] = cur.len
       /\ (Starting /\ cur.pc = "cr" /\ cur' # cur) =>
             /\ \A f \in Families : cr'[cur.h].size = OpSize(f, cur.op)
             /\ cr'[cur.h].dir = OpDir(cur.op)
             /\ cur.op = "write_x" =>
                   /\ cr'[cur.h].dir = "from_memory"
                   /\ ~cr'[cur.h].minc
                   /\ cr'[cur.h].size = 8
      ]_vars

====
